---------------------------- MODULE Spec2Model ----------------------------
(***************************************************************************)
(* The trampoline of the crate `tramp` (src/src/lib.rs): BorrowRec, Thunk, *)
(* FnThunk::call_boxed, Thunk::new, Thunk::compute and the driver tramp,   *)
(* run on the step functions of the crate's documentation and tests        *)
(* (fac_acc, is_even_rec, is_odd_rec) and on arbitrary bounded chains of   *)
(* steps handed to tramp as its argument.                                  *)
(*                                                                         *)
(* One run is modelled at the granularity of the calls the code makes:     *)
(* the call stack, the heap boxes behind the thunks, the driver's local    *)
(* `res`, and history variables recording which thunks were created and    *)
(* forced and in which order.                                              *)
(***************************************************************************)
EXTENDS Integers, Sequences, FiniteSets, TLC

\* ------------------------------------------------------------------ bounds

\* Longest explicit chain handed to tramp: number of Call steps before the end.
MaxLen == 3
\* Largest argument of factorial (n! stays far below 2^31 and 2^128: the
\* u128 product acc * n cannot overflow within this bound).
MaxN == 6
\* Largest argument of is_even / is_odd.
MaxX == 5
\* Cap on the number of forcings of one run; only a chain that never ends
\* reaches it (every finite chain of the bounds above is shorter).
MaxSteps == 8
\* The values a chain may end with are 0..MaxVal.
MaxVal == 1

VARIABLES
    pc,        \* position of the single thread of control
    input,     \* what the caller runs: the program and its argument
    res,       \* tramp's local `res` (lib.rs:156)
    heap,      \* the Box allocations behind the thunks: id -> box
    stack,     \* the call stack, outermost frame first
    cur,       \* id of the thunk whose compute() is in progress
    clo,       \* the closure moved out of the box by call_boxed
    ret,       \* the value the closure returned, on its way back to tramp
    out,       \* outcome of the run as the caller sees it
    forced,    \* history: ids of the thunks compute() was called on, in order
    forcedClo, \* history: the closures those thunks held
    born,      \* history: born[i+1] = number of forcings begun when thunk i was made
    ran,       \* history: ids of the thunks whose captured computation was run, in order
    iters,     \* history: number of times the loop body of tramp was entered
    past,      \* history: <<>> or one remembered earlier run: its input and how it went
    lastOut    \* history: the outcome of the most recent run that has ended

vars == <<pc, input, res, heap, stack, cur, clo, ret, out, forced, forcedClo, born, ran, iters,
          past, lastOut>>

\* ------------------------------------------------------- BorrowRec / steps

\* BorrowRec::Ret(x).
Ret(x) == [tag |-> "Ret", val |-> x]
\* BorrowRec::Call(thunk); the thunk is named by the id of its box.
Call(t) == [tag |-> "Call", thunk |-> t]
\* `res` after `match res` has moved the thunk out of it.
Moved == [tag |-> "Moved"]

\* What a step function hands back before the thunk is boxed: rec_ret!(v),
\* rec_call!(e) with the closure `move || e`, or a panic with its payload.
StepRet(v) == [tag |-> "Ret", val |-> v]
StepCall(c) == [tag |-> "Call", clo |-> c]
StepPanic(m) == [tag |-> "Panic", msg |-> m]

\* A bool as a value of a step: true is 1 and false is 0 (`b as u128`), so
\* that the values of all the programs run are integers.
Bool(b) == IF b THEN 1 ELSE 0

\* A closure: the function its body calls and the variables it captured.
Closure(code, env) == [code |-> code, env |-> env]


\* ------------------------------------------------- the step functions run

\* fac_acc of tests/fac.rs (fac_with_acc of the crate documentation):
\* rec_call!(fac_acc(n - 1, acc * n)) builds the closure
\* `move || fac_acc(n - 1, acc * n)`, which captures n and acc as they are.
fac_acc_ret_one(n, acc) ==
    IF n > 1 THEN StepCall(Closure("fac_acc", <<n, acc>>)) ELSE StepRet(1)
fac_acc(n, acc) ==
    IF n > 1 THEN StepCall(Closure("fac_acc", <<n, acc>>)) ELSE StepRet(acc)

\* The plain accumulator-passing factorial of the crate documentation
\* (lib.rs:45-56), by ordinary recursion: fac calls fac_with_acc(n, 1), whose
\* else branch is the literal 1.
RECURSIVE fac_with_acc(_, _)
fac_with_acc(n, acc) ==
    IF n > 1 THEN fac_with_acc(n - 1, acc * n) ELSE 1
fac(n) == fac_with_acc(n, 1)

\* is_even_rec and is_odd_rec of tests/mutual.rs: the closures
\* `move || is_odd_rec(x - 1)` and `move || is_even_rec(x - 1)` capture x.
is_even_rec_self(x) ==
    IF x > 0 THEN StepCall(Closure("is_even_rec", <<x>>)) ELSE StepRet(Bool(TRUE))
is_even_rec(x) ==
    IF x > 0 THEN StepCall(Closure("is_odd_rec", <<x>>)) ELSE StepRet(Bool(TRUE))
is_odd_rec(x) ==
    IF x > 0 THEN StepCall(Closure("is_even_rec", <<x>>)) ELSE StepRet(Bool(FALSE))

\* An explicit chain of steps, as tramp may be handed by any caller: a
\* sequence of k "Call" steps ended by a "Ret" with its value or by a
\* "Panic" with its payload. The closure of each Call captures the rest.
ChainStep(t, v) == [t |-> t, v |-> v]
CallsThen(k, last) ==
    [i \in 1..(k + 1) |-> IF i <= k THEN ChainStep("Call", 0) ELSE last]
Chains ==
    {CallsThen(k, ChainStep("Ret", v)) : k \in 0..MaxLen, v \in 0..MaxVal}
    \cup {CallsThen(k, ChainStep("Panic", m)) : k \in 1..MaxLen, m \in 0..MaxVal}
chain_step(c) ==
    CASE Head(c).t = "Ret" -> StepRet(Head(c).v)
      [] Head(c).t = "Call" -> StepCall(Closure("chain", Tail(c)))
      [] OTHER -> StepPanic(Head(c).v)

\* A step function that always defers to itself: fn spin() { rec_call!(spin()) }.
spin == StepCall(Closure("spin", <<>>))

\* Running the body of a closure: its argument expressions are evaluated
\* now, from the captured variables, and the step function is called.
RunClosure(c) ==
    CASE c.code = "fac_acc" -> fac_acc(c.env[1] - 1, c.env[2] * c.env[1])
      [] c.code = "is_odd_rec" -> is_odd_rec(c.env[1] - 1)
      [] c.code = "is_even_rec" -> is_even_rec(c.env[1] - 1)
      [] c.code = "chain" -> chain_step(c.env)
      [] OTHER -> spin

\* The name of the step function a closure calls (its stack frame).
Callee(c) == c.code

\* The argument expression of the call of tramp: the first step.
FirstStep(in) ==
    CASE in.prog = "chain" -> chain_step(in.arg)
      [] in.prog = "spin" -> spin
      [] in.prog = "factorial" -> fac_acc(in.arg, 1)
      [] in.prog = "is_even" -> is_even_rec(in.arg)
      [] OTHER -> is_odd_rec(in.arg)

\* ------------------------------------------------------------ heap, stack

\* Thunk::new(fun): Box::new(fun) allocates one box holding the closure.
\* The closure is stored, not called.
ThunkNew(h, id, c) ==
    [i \in DOMAIN h \cup {id} |-> IF i = id THEN [clo |-> c, full |-> TRUE] ELSE h[i]]

\* `(*self)` in call_boxed moves the closure out of its box; the box stays
\* allocated, empty, until call_boxed ends.
MoveOut(h, id) == [h EXCEPT ![id].full = FALSE]

\* The drop of the emptied Box<Self> at the end of call_boxed.
KeepBox(h, id) == h
DropBox(h, id) == [i \in DOMAIN h \ {id} |-> h[i]]

\* The id of the next thunk made: thunks are numbered in order of creation.
NextId == Len(born)

\* The frames left when a call that pushed n frames has returned.
KeepFrames(s, n) == s
PopFrames(s, n) == SubSeq(s, 1, Len(s) - n)

\* `break x`: the value tramp returns is the x of BorrowRec::Ret(x).
BreakAltered(r) == r.val + 1
BreakDefault(r) == 0
BreakStale(r) == IF lastOut.tag = "Ret" THEN lastOut.val ELSE r.val
BreakValue(r) == r.val

Range(s) == {s[i] : i \in 1..Len(s)}

\* Thunks that exist and on which compute() has not been called.
Unforced == {i \in DOMAIN heap : heap[i].full /\ i \notin Range(forced)}

\* Number of calls of Thunk::compute in progress.
ForcingDepth == Cardinality({i \in 1..Len(stack) : stack[i] = "compute"})

\* -------------------------------------------------------------- the run

NoClosure == Closure("none", <<>>)
NoOutcome == [tag |-> "None"]

Init ==
    /\ pc = "idle"
    /\ input = [prog |-> "none", arg |-> 0]
    /\ res = Moved
    /\ heap = <<>>
    /\ stack = <<>>
    /\ cur = 0
    /\ clo = NoClosure
    /\ ret = Moved
    /\ out = NoOutcome
    /\ forced = <<>>
    /\ forcedClo = <<>>
    /\ born = <<>>
    /\ ran = <<>>
    /\ iters = 0
    /\ past = <<>>
    /\ lastOut = NoOutcome

\* The caller evaluates the argument of tramp (the first call of the step
\* function, which may box one thunk) and calls tramp with it.
Enter(in) ==
    /\ pc = "idle"
    /\ input' = in
    /\ LET s == FirstStep(in) IN
         IF s.tag = "Call"
         THEN /\ heap' = ThunkNew(heap, NextId, s.clo)
              /\ born' = Append(born, Len(forced))
              /\ res' = Call(NextId)
         ELSE /\ res' = Ret(s.val)
              /\ UNCHANGED <<heap, born>>
    /\ stack' = <<"tramp">>
    /\ pc' = "loop"
    /\ UNCHANGED <<cur, clo, ret, out, forced, forcedClo, iters, ran, past, lastOut>>

BeginChain == \E c \in Chains : Enter([prog |-> "chain", arg |-> c])
BeginSpin == Enter([prog |-> "spin", arg |-> 0])
BeginFactorial == \E n \in 0..MaxN : Enter([prog |-> "factorial", arg |-> n])
BeginIsEven == \E x \in 0..MaxX : Enter([prog |-> "is_even", arg |-> x])
BeginIsOdd == \E x \in 0..MaxX : Enter([prog |-> "is_odd", arg |-> x])

\* tramp, `BorrowRec::Ret(x) => break x`: the loop ends and tramp returns x.
TrampRet ==
    /\ pc = "loop"
    /\ res.tag = "Ret"
    /\ out' = [tag |-> "Ret", val |-> BreakValue(res)]
    /\ res' = Moved
    /\ stack' = PopFrames(stack, 1)
    /\ iters' = iters + 1
    /\ pc' = "done"
    /\ UNCHANGED <<input, heap, cur, clo, ret, forced, forcedClo, born, ran, past, lastOut>>

\* A driver with a step limit: after two forcings it returns without
\* driving the rest of the chain.
TrampCallLimited ==
    /\ pc = "loop"
    /\ res.tag = "Call"
    /\ Len(forced) < MaxSteps
    /\ res.thunk \in DOMAIN heap
    /\ IF Len(forced) >= 2
       THEN /\ out' = [tag |-> "Ret", val |-> 0]
            /\ pc' = "done"
            /\ UNCHANGED <<cur, res, forced, forcedClo, stack, iters>>
       ELSE /\ cur' = res.thunk
            /\ res' = Moved
            /\ forced' = Append(forced, res.thunk)
            /\ forcedClo' = Append(forcedClo, heap[res.thunk].clo)
            /\ stack' = Append(stack, "compute")
            /\ iters' = iters + 1
            /\ pc' = "compute"
            /\ UNCHANGED out
    /\ UNCHANGED <<input, heap, clo, ret, born, ran, past, lastOut>>

\* A driver with a cycle check: it gives up when the thunk it is about to
\* force holds a closure it has forced before.
TrampCallCycleCheck ==
    /\ pc = "loop"
    /\ res.tag = "Call"
    /\ Len(forced) < MaxSteps
    /\ res.thunk \in DOMAIN heap
    /\ IF heap[res.thunk].clo \in Range(forcedClo)
       THEN /\ out' = [tag |-> "Ret", val |-> 0]
            /\ pc' = "done"
            /\ UNCHANGED <<cur, res, forced, forcedClo, stack, iters>>
       ELSE /\ cur' = res.thunk
            /\ res' = Moved
            /\ forced' = Append(forced, res.thunk)
            /\ forcedClo' = Append(forcedClo, heap[res.thunk].clo)
            /\ stack' = Append(stack, "compute")
            /\ iters' = iters + 1
            /\ pc' = "compute"
            /\ UNCHANGED out
    /\ UNCHANGED <<input, heap, clo, ret, born, ran, past, lastOut>>

\* tramp, `BorrowRec::Call(thunk) => res = thunk.compute()`, up to the call:
\* the match moves the thunk out of res and compute takes it by value.
TrampCall ==
    /\ pc = "loop"
    /\ res.tag = "Call"
    /\ Len(forced) < MaxSteps
    /\ res.thunk \in DOMAIN heap
    /\ cur' = res.thunk
    /\ res' = Moved
    /\ forced' = Append(forced, res.thunk)
    /\ forcedClo' = Append(forcedClo, heap[res.thunk].clo)
    /\ stack' = Append(stack, "compute")
    /\ iters' = iters + 1
    /\ pc' = "compute"
    /\ UNCHANGED <<input, heap, clo, ret, out, born, ran, past, lastOut>>

\* Thunk::compute: self.fun.call_boxed(); call_boxed moves the closure out
\* of the box with `*self`.
ThunkCompute ==
    /\ pc = "compute"
    /\ clo' = heap[cur].clo
    /\ heap' = MoveOut(heap, cur)
    /\ stack' = Append(stack, "call_boxed")
    /\ pc' = "call_boxed"
    /\ UNCHANGED <<input, res, cur, ret, out, forced, forcedClo, born, iters, ran, past, lastOut>>

\* call_boxed, `(*self)()`: the closure is called, and its body calls the
\* step function it names.
CallClosure ==
    /\ pc = "call_boxed"
    /\ stack' = stack \o <<"closure", Callee(clo)>>
    /\ pc' = "body"
    /\ UNCHANGED <<input, res, heap, cur, clo, ret, out, forced, forcedClo, born, iters, ran, past, lastOut>>

\* A rec_call! that evaluates its call expression when the thunk is made:
\* the computation the new thunk should defer runs inside Thunk::new, and a
\* panic of it is raised there.
StepBodyEager ==
    /\ pc = "body"
    /\ LET s == RunClosure(clo) IN
         CASE s.tag = "Ret" ->
                /\ ret' = Ret(s.val)
                /\ stack' = PopFrames(stack, 2)
                /\ pc' = "return"
                /\ ran' = Append(ran, cur)
                /\ UNCHANGED <<heap, born>>
           [] s.tag = "Call" ->
                /\ ran' = ran \o <<cur, NextId>>
                /\ IF RunClosure(s.clo).tag = "Panic"
                   THEN /\ ret' = RunClosure(s.clo)
                        /\ pc' = "unwind"
                        /\ UNCHANGED <<heap, born, stack>>
                   ELSE /\ heap' = ThunkNew(heap, NextId, s.clo)
                        /\ born' = Append(born, Len(forced))
                        /\ ret' = Call(NextId)
                        /\ stack' = PopFrames(stack, 2)
                        /\ pc' = "return"
           [] OTHER ->
                /\ ret' = s
                /\ pc' = "unwind"
                /\ ran' = Append(ran, cur)
                /\ UNCHANGED <<heap, born, stack>>
    /\ UNCHANGED <<input, res, cur, clo, out, forced, forcedClo, iters, past, lastOut>>

\* The closure body runs: its call expression is evaluated and the step
\* function returns Ret(v), or boxes a new thunk and returns Call(thunk),
\* or panics. Thunk::new stores the new closure and does not call it.
StepBody ==
    /\ pc = "body"
    /\ ran' = Append(ran, cur)
    /\ LET s == RunClosure(clo) IN
         CASE s.tag = "Ret" ->
                /\ ret' = Ret(s.val)
                /\ stack' = PopFrames(stack, 2)
                /\ pc' = "return"
                /\ UNCHANGED <<heap, born>>
           [] s.tag = "Call" ->
                /\ heap' = ThunkNew(heap, NextId, s.clo)
                /\ born' = Append(born, Len(forced))
                /\ ret' = Call(NextId)
                /\ stack' = PopFrames(stack, 2)
                /\ pc' = "return"
           [] OTHER ->
                /\ ret' = s
                /\ pc' = "unwind"
                /\ UNCHANGED <<heap, born, stack>>
    /\ UNCHANGED <<input, res, cur, clo, out, forced, forcedClo, iters, past, lastOut>>

\* A driver that takes the thunk by reference and drops the step compute
\* returns: res still holds the thunk it has just forced.
ComputeReturnKeepsThunk ==
    /\ pc = "return"
    /\ heap' = [heap EXCEPT ![cur].full = TRUE]
    /\ stack' = PopFrames(stack, 2)
    /\ res' = Call(cur)
    /\ ret' = Moved
    /\ clo' = NoClosure
    /\ pc' = "loop"
    /\ UNCHANGED <<input, cur, out, forced, forcedClo, born, iters, ran, past, lastOut>>

\* call_boxed and compute return: the emptied box is dropped and tramp
\* assigns the step to res, then loops.
ComputeReturn ==
    /\ pc = "return"
    /\ heap' = DropBox(heap, cur)
    /\ stack' = PopFrames(stack, 2)
    /\ res' = ret
    /\ ret' = Moved
    /\ clo' = NoClosure
    /\ pc' = "loop"
    /\ UNCHANGED <<input, cur, out, forced, forcedClo, born, iters, ran, past, lastOut>>

\* A driver that catches the panic of a thunk and returns a value instead.
UnwindCaught ==
    /\ pc = "unwind"
    /\ heap' = DropBox(heap, cur)
    /\ stack' = <<>>
    /\ out' = [tag |-> "Ret", val |-> ret.msg]
    /\ ret' = Moved
    /\ clo' = NoClosure
    /\ pc' = "done"
    /\ UNCHANGED <<input, res, cur, forced, forcedClo, born, iters, ran, past, lastOut>>

\* A panic unwinds every frame: nothing in call_boxed, compute or tramp
\* catches it, the emptied box is dropped on the way, and the caller of
\* tramp sees the panic with its payload.
Unwind ==
    /\ pc = "unwind"
    /\ heap' = DropBox(heap, cur)
    /\ stack' = <<>>
    /\ out' = [tag |-> "Panic", msg |-> ret.msg]
    /\ ret' = Moved
    /\ clo' = NoClosure
    /\ pc' = "panicked"
    /\ UNCHANGED <<input, res, cur, forced, forcedClo, born, iters, ran, past, lastOut>>

\* tramp has returned or unwound to its caller, which may call it again. The
\* frames and locals of the run are gone; tramp has no static, so nothing of
\* it is kept but what is still on the heap. The run that ended may be
\* remembered, to compare a later run on the same chain with it.
EndRun(remember) ==
    /\ pc \in {"done", "panicked"}
    /\ past' = IF remember
               THEN <<[prog |-> input.prog, arg |-> input.arg, forced |-> forced,
                       forcedClo |-> forcedClo, ran |-> ran, iters |-> iters,
                       out |-> out]>>
               ELSE past
    /\ lastOut' = out
    /\ pc' = "idle"
    /\ input' = [prog |-> "none", arg |-> 0]
    /\ res' = Moved
    /\ stack' = <<>>
    /\ cur' = 0
    /\ clo' = NoClosure
    /\ ret' = Moved
    /\ out' = NoOutcome
    /\ forced' = <<>>
    /\ forcedClo' = <<>>
    /\ born' = <<>>
    /\ ran' = <<>>
    /\ iters' = 0
    /\ UNCHANGED heap

AgainRemember == past = <<>> /\ EndRun(TRUE)
AgainForget == EndRun(FALSE)
Again == AgainRemember \/ AgainForget

Begin == BeginChain \/ BeginSpin \/ BeginFactorial \/ BeginIsEven \/ BeginIsOdd

Run == TrampRet \/ TrampCall \/ ThunkCompute \/ CallClosure \/ StepBody \/ ComputeReturn \/ Unwind

Next == Begin \/ Run

Spec == Init /\ [][Next]_vars

\* Any number of runs of tramp, one after another.
Runs == Next \/ Again
RunsSpec == Init /\ [][Runs]_vars

\* The thread that called tramp keeps running until tramp returns or panics.
FairSpec == Spec /\ WF_vars(Run)

\* ------------------------------------------------ reference definitions

\* The same logical function by ordinary recursion: every deferred call is
\* made at once, as a nested call. `fuel` bounds the depth; "More" means the
\* chain has not ended within it.
RECURSIVE Recursion(_, _)
Recursion(s, fuel) ==
    IF s.tag # "Call" THEN s
    ELSE IF fuel = 0 THEN [tag |-> "More"]
    ELSE Recursion(RunClosure(s.clo), fuel - 1)

\* The number of Call steps before the end of the chain that starts with s.
RECURSIVE CallsBeforeEnd(_, _)
CallsBeforeEnd(s, fuel) ==
    IF s.tag # "Call" \/ fuel = 0 THEN 0
    ELSE 1 + CallsBeforeEnd(RunClosure(s.clo), fuel - 1)

Started == input.prog # "none"
Direct == Recursion(FirstStep(input), MaxSteps)
ChainLength == CallsBeforeEnd(FirstStep(input), MaxSteps)
EndsInRet == Started /\ Direct.tag = "Ret"
EndsInPanic == Started /\ Direct.tag = "Panic"
NeverEnds == Started /\ Direct.tag = "More"

\* The last step of an explicit chain.
Last(c) == c[Len(c)]

\* Thunk ids 0, 1, ..., n-1 in order.
FirstIds(n) == [i \in 1..n |-> i - 1]

RECURSIVE Factorial(_)
Factorial(n) == IF n <= 1 THEN 1 ELSE n * Factorial(n - 1)

\* ------------------------------------------------------------------ claims

\* C1: for every finite chain (k >= 0 Call steps, then Ret(v)) tramp returns
\* exactly v, the value the ordinary recursive call chain returns; a run that
\* returns has a chain that ends in Ret, and the value is not altered.
C1_ReturnsFinalValue ==
    pc = "done" =>
        /\ out.tag = "Ret"
        /\ EndsInRet
        /\ out.val = Direct.val
        /\ input.prog = "chain" =>
              /\ Last(input.arg).t = "Ret"
              /\ out.val = Last(input.arg).v

C1_Witness ==
    /\ pc = "done"
    /\ input.prog = "chain"
    /\ Len(input.arg) = 4
    /\ out.val = 1

\* C2: tramp terminates if and only if the chain is finite. A chain that
\* reaches Ret makes tramp return, a chain that ends is driven to its end,
\* tramp returns only for a chain that reaches Ret, and on a chain whose
\* every thunk yields another Call the driver never stops by itself: it
\* neither returns nor fails, and its next step is always enabled.
C2_TerminatesIffFinite ==
    /\ [](EndsInRet => <>(pc = "done"))
    /\ [](EndsInPanic => <>(pc = "panicked"))
    /\ [](pc = "done" => EndsInRet)
    /\ [](NeverEnds => pc \notin {"done", "unwind", "panicked"})
    /\ [](NeverEnds /\ Len(forced) < MaxSteps => ENABLED Run)

C2_Witness ==
    /\ NeverEnds
    /\ Len(forced) = MaxSteps
    /\ pc = "loop"
    /\ res.tag = "Call"

\* C3: no thunk is forced more than once: the thunks compute() was called
\* on are pairwise distinct, and a thunk compute() was called on is held
\* neither by res nor by the step on its way to res, so it cannot be
\* forced again.
C3_ForcedAtMostOnce ==
    /\ \A i, j \in 1..Len(forced) : i # j => forced[i] # forced[j]
    /\ res.tag = "Call" => res.thunk \notin Range(forced)
    /\ ret.tag = "Call" => ret.thunk \notin Range(forced)
    /\ pc = "compute" => heap[cur].full

C3_Witness ==
    /\ pc = "loop"
    /\ res.tag = "Call"
    /\ Len(forced) = 3
    /\ input.prog = "is_even"

\* C4: when the computation of the j-th step of a chain panics, tramp fails
\* exactly when the j-th thunk is forced: thunks 1..j-1 were forced before
\* it, in order, none is forced or made after it, the panic reaches the
\* caller with its payload unchanged, and tramp returns no value. A run
\* fails only if a step of its chain panics.
C4_PanicAtForcedStep ==
    /\ pc \in {"unwind", "panicked"} => EndsInPanic
    /\ EndsInPanic =>
          /\ pc # "done" /\ out.tag # "Ret"
          /\ Len(forced) <= ChainLength
          /\ pc \in {"unwind", "panicked"} =>
                /\ forced = FirstIds(ChainLength)
                /\ NextId = ChainLength
          /\ pc = "unwind" =>
                /\ stack = <<"tramp", "compute", "call_boxed", "closure", "chain">>
                /\ cur = ChainLength - 1
          /\ pc = "panicked" =>
                /\ out = [tag |-> "Panic", msg |-> Direct.msg]
                /\ out.msg = Last(input.arg).v
                /\ stack = <<>>

C4_Witness ==
    /\ pc = "panicked"
    /\ Len(forced) = 3
    /\ out.msg = 1

\* C5: tramp(Ret(x)) returns x at once: the Ret arm runs on the first
\* iteration of the loop, no thunk is made and none is forced.
C5_RetReturnsImmediately ==
    (Started /\ FirstStep(input).tag = "Ret") =>
        /\ pc \in {"loop", "done"}
        /\ forced = <<>> /\ born = <<>> /\ heap = <<>>
        /\ pc = "loop" => iters = 0 /\ res = Ret(FirstStep(input).val)
        /\ pc = "done" =>
              /\ iters = 1
              /\ out = [tag |-> "Ret", val |-> FirstStep(input).val]

C5_Witness ==
    /\ pc = "done"
    /\ input.prog = "chain"
    /\ input.arg = <<ChainStep("Ret", 1)>>
    /\ out.val = 1
    /\ iters = 1

\* C6: the trampolined accumulator factorial, driven from fac_acc(n, 1),
\* returns n! for every n of the range: 120 for n = 5, 1 for n = 0 and n = 1.
C6_FactorialIsFactorial ==
    (pc = "done" /\ input.prog = "factorial") =>
        /\ out.tag = "Ret"
        /\ out.val = Factorial(input.arg)
        /\ input.arg = 5 => out.val = 120
        /\ input.arg \in {0, 1} => out.val = 1

C6_Witness ==
    /\ pc = "done"
    /\ input.prog = "factorial"
    /\ input.arg = 5
    /\ out.val = 120

\* C7: for every x >= 0 of the range, tramp(is_even_rec(x)) is (x mod 2 = 0)
\* and tramp(is_odd_rec(x)) is (x mod 2 = 1); neither run fails.
C7_ParityIsParity ==
    /\ input.prog \in {"is_even", "is_odd"} => pc \notin {"unwind", "panicked"}
    /\ (pc = "done" /\ input.prog = "is_even") =>
          out = [tag |-> "Ret", val |-> Bool(input.arg % 2 = 0)]
    /\ (pc = "done" /\ input.prog = "is_odd") =>
          out = [tag |-> "Ret", val |-> Bool(input.arg % 2 = 1)]

C7_Witness ==
    /\ pc = "done"
    /\ input.prog = "is_odd"
    /\ input.arg = 5
    /\ out.val = Bool(TRUE)

\* C8: at most one thunk that has not been forced exists in any state. Every
\* thunk but the first is made while the thunk before it is being forced,
\* whose closure has by then been moved out of its box; that emptied box is
\* freed when its call returns, so at most two boxes are allocated at once,
\* whatever the length of the chain.
C8_OneLiveThunk ==
    /\ Cardinality(Unforced) <= 1
    /\ Cardinality({i \in DOMAIN heap : heap[i].full}) <= 1
    /\ Cardinality(DOMAIN heap) <= 2
    /\ \A i \in 1..Len(born) : born[i] = i - 1
    /\ pc \in {"loop", "done", "panicked"} => Cardinality(DOMAIN heap) <= 1

C8_Witness ==
    /\ Cardinality(DOMAIN heap) = 2
    /\ Cardinality(Unforced) = 1
    /\ Len(forced) = 2
    /\ input.prog = "chain"

\* C9: the driver never forces a thunk while another is being forced: at
\* most one call of compute is in progress in any state, and the stack of a
\* run is never deeper than the five frames of one forcing.
C9_ForcingNotNested ==
    /\ ForcingDepth <= 1
    /\ Len(stack) <= 5
    /\ pc = "loop" => stack = <<"tramp">>

C9_Witness ==
    /\ ForcingDepth = 1
    /\ Len(stack) = 5
    /\ Len(forced) = 5
    /\ input.prog = "is_even"

\* C10: for a chain with k Call steps before its Ret, tramp forces exactly k
\* thunks, each once and in chain order: the i-th forcing is of the i-th
\* thunk made, which holds the rest of the chain after its i-th Call; a
\* forcing begins only when the one before has returned its step; and the
\* run stops at the first Ret with nothing made or forced after it.
C10_ForcesInChainOrder ==
    /\ forced = FirstIds(Len(forced))
    /\ Len(forcedClo) = Len(forced)
    /\ pc = "compute" => stack = <<"tramp", "compute">> /\ ret = Moved
    /\ input.prog = "chain" =>
          \A i \in 1..Len(forced) :
              forcedClo[i] = Closure("chain", SubSeq(input.arg, i + 1, Len(input.arg)))
    /\ pc = "done" =>
          /\ Len(forced) = ChainLength
          /\ NextId = ChainLength
          /\ iters = ChainLength + 1
          /\ heap = <<>>
          /\ input.prog = "chain" => ChainLength = Len(input.arg) - 1

C10_Witness ==
    /\ pc = "done"
    /\ input.prog = "chain"
    /\ Len(input.arg) = 4
    /\ forced = <<0, 1, 2>>

\* C11: making a deferred step (Thunk::new, rec_call!) never runs the
\* captured computation. The computations run are those of the thunks
\* compute() was called on, in that order, each after its compute() call;
\* a thunk not yet forced has not been run, still holds its captured
\* variables with the argument expressions unevaluated (for factorial, n
\* itself and not n - 1), and a panic it holds is raised only when it is
\* forced, by the computation of the thunk being forced.
C11_ConstructionDefers ==
    /\ Len(ran) <= Len(forced)
    /\ \A i \in 1..Len(ran) : ran[i] = forced[i]
    /\ \A id \in DOMAIN heap : heap[id].full => id \notin Range(ran)
    /\ pc \in {"compute", "call_boxed", "body"} =>
          cur \notin Range(ran) /\ Len(ran) = Len(forced) - 1
    /\ pc \in {"loop", "return", "unwind", "done", "panicked"} => Len(ran) = Len(forced)
    /\ pc = "unwind" => ran[Len(ran)] = cur /\ forced[Len(forced)] = cur
    /\ input.prog = "factorial" =>
          \A id \in DOMAIN heap : heap[id].clo.env[1] = input.arg - id
    /\ input.prog = "chain" =>
          \A id \in DOMAIN heap :
              (heap[id].full /\ Head(heap[id].clo.env).t = "Panic") =>
                  pc \notin {"unwind", "panicked"}

C11_Witness ==
    /\ pc = "return"
    /\ input.prog = "chain"
    /\ ret.tag = "Call"
    /\ heap[ret.thunk].full
    /\ Head(heap[ret.thunk].clo.env).t = "Panic"
    /\ ret.thunk \notin Range(ran)
    /\ Len(ran) = 2

\* C12: the driver holds no state across invocations and is deterministic.
\* A run on the chain of a remembered earlier run forces the same sequence
\* of thunks, runs the same computations and ends with the same outcome
\* (the same value, or the failure of the same step with the same payload),
\* whatever runs on other chains came between; and between runs nothing of
\* a run is left: no box on the heap.
SameChainAsPast ==
    /\ past # <<>>
    /\ input.prog = past[1].prog
    /\ input.arg = past[1].arg

C13_PlainEqualsTrampolined ==
    (pc = "done" /\ input.prog = "factorial") =>
        /\ fac(input.arg) = out.val
        /\ fac(input.arg) = Factorial(input.arg)

=============================================================================
